---- MODULE Spec2Model ----
(***************************************************************************)
(* Model of lib-gotchi/aavegotchi/collateralFacet.ts: eight async wrappers *)
(* over one ethers Contract handle (collateralFacet).  Every wrapper runs  *)
(* inside try { ... } catch (error) { throw new Error(error) }.            *)
(*                                                                         *)
(* An invocation lives in a slot.  Each `await` of the source is a         *)
(* suspension point: the code up to the await is one action (it issues the *)
(* remote request), and the continuation after the await is one action per *)
(* way the awaited promise can settle (Return: fulfilled, Catch: rejected).*)
(* The remote side (contract, provider, chain) is the environment: its     *)
(* answers are drawn from small sets.                                      *)
(***************************************************************************)
EXTENDS Integers, Sequences, FiniteSets, TLC

(* ---------------------------- bounds ----------------------------------- *)
MaxId == 2         \* hauntId, collateralId, tokenId, amounts range over 1..MaxId
NumAddr == 2       \* distinct addresses the remote may return
MaxBalance == 1    \* balance_ ranges over 0..MaxBalance
MaxLen == 2        \* longest array the remote returns
MaxGas == 2        \* gas prices (wei) range over 1..MaxGas
NumErr == 1        \* distinct kinds of remote failure

(* ---------------------------- constants -------------------------------- *)
Gwei == 1000000000 \* formatUnits(gasPrice, "gwei"): 9 decimals

\* one invocation per slot; two slots, so that an invocation runs before,
\* after or interleaved with another one
Slots == {"s1", "s2"}
Ids == 1..MaxId
Address == {<<"0x", i>> : i \in 1..NumAddr}
GasPrices == 1..MaxGas
RemoteErrors == {[reason |-> i] : i \in 1..NumErr}

Undefined == "undefined"
NoOverrides == {}

ReadWrappers == {"collaterals", "collateralInfo", "getCollateralInfo",
                 "getAllCollateralTypes", "collateralBalance"}
WriteWrappers == {"increaseStake", "decreaseStake", "decreaseAndDestroy"}
Wrappers == ReadWrappers \cup WriteWrappers

SeqsUpTo(S, n) == UNION {[1..k -> S] : k \in 0..n}

(* What the remote contract may answer to each view call (ethers Result). *)
\* the contract keeps one collateralTypeInfo struct per collateral address
\* (an ethers Result carries the values by position as well as by name)
CollateralTypeIO ==
    {[collateralType |-> <<"0x", i>>, collateralTypeInfo |-> <<"info", i>>,
      byPosition |-> <<<<"0x", i>>, <<"info", i>>>>] : i \in 1..NumAddr}
BalanceResult ==
    {[collateralType_ |-> c, escrow_ |-> e, balance_ |-> b, byPosition |-> <<c, e, b>>] :
        c \in Address, e \in Address, b \in 0..MaxBalance}

Responses(f) ==
    CASE f = "collaterals" -> SeqsUpTo(Address, MaxLen)
      [] f = "collateralInfo" -> CollateralTypeIO
      [] f = "getCollateralInfo" -> SeqsUpTo(CollateralTypeIO, MaxLen)
      [] f = "getAllCollateralTypes" -> SeqsUpTo(Address, MaxLen)
      [] f = "collateralBalance" -> BalanceResult
      [] OTHER -> {}

(* ---------------------------- state ------------------------------------ *)
VARIABLES
    pc,        \* slot -> position of the invocation
    fn,        \* slot -> wrapper invoked
    args,      \* slot -> arguments the wrapper received
    gasPrice,  \* slot -> local `const gasPrice`: <<>> until assigned, then <<g>>
    tx,        \* slot -> local `const tx`: <<>> until assigned, then <<index into txs>>
    result,    \* slot -> value or error the returned promise settled with
    issued,    \* slot -> remote requests the invocation issued, in order
    resp,      \* slot -> answers to those requests, in order
    console,   \* slot -> lines the invocation wrote with console.log
    txs        \* transactions the remote accepted, in order of acceptance

vars == <<pc, fn, args, gasPrice, tx, result, issued, resp, console, txs>>

\* the other slot (used by the variants only)
Other(p) == CHOOSE q \in Slots : q # p

(* ---------------------------- pure parts ------------------------------- *)
\* line 48: return collaterals
collateralsReturn(ret) == ret

\* line 64
collateralInfoReturn(ret) ==
    [collateralType |-> ret.collateralType, collateralTypeInfo |-> ret.collateralTypeInfo]

\* variant of getCollateralInfoReturn that loses the order (sensitivity of C9)
getCollateralInfoReturnReversed(ret) ==
    [i \in 1..Len(ret) |->
        [collateralType |-> ret[Len(ret) + 1 - i].collateralType,
         collateralTypeInfo |-> ret[Len(ret) + 1 - i].collateralTypeInfo]]

\* lines 80-84: ret.map(c => ({collateralType, collateralTypeInfo}))
getCollateralInfoReturn(ret) ==
    [i \in 1..Len(ret) |->
        [collateralType |-> ret[i].collateralType,
         collateralTypeInfo |-> ret[i].collateralTypeInfo]]

\* line 98: return allCollaterals
getAllCollateralTypesReturn(ret) == ret

\* variant of collateralBalanceReturn with two fields exchanged (sensitivity of C6)
collateralBalanceReturnSwapped(ret) ==
    [collateralType |-> ret.escrow_, escrow |-> ret.collateralType_, balance |-> ret.balance_]

\* line 116
collateralBalanceReturn(ret) ==
    [collateralType |-> ret.collateralType_, escrow |-> ret.escrow_, balance |-> ret.balance_]

Unmarshal(f, ret) ==
    CASE f = "collaterals" -> collateralsReturn(ret)
      [] f = "collateralInfo" -> collateralInfoReturn(ret)
      [] f = "getCollateralInfo" -> getCollateralInfoReturn(ret)
      [] f = "getAllCollateralTypes" -> getAllCollateralTypesReturn(ret)
      [] f = "collateralBalance" -> collateralBalanceReturn(ret)

\* throw new Error(error): a fresh Error whose message is String(error)
NewError(error) == [name |-> "Error", message |-> <<"String", error>>]

\* ethers.utils.formatUnits(gasPrice, "gwei"): whole gwei and the wei remainder
formatUnits(g) == <<g \div Gwei, g % Gwei>>

\* collateralFacet.<f>(...a): a view call, no overrides
CallRequest(f, a) ==
    [target |-> "collateralFacet", on |-> <<>>, method |-> f, args |-> a,
     overrides |-> NoOverrides]

\* collateralFacet.<f>(...a, {gasPrice: gasPrice})
SendRequest(f, a, g) ==
    [target |-> "collateralFacet", on |-> <<>>, method |-> f, args |-> a,
     overrides |-> {<<"gasPrice", g>>}]

\* the submission of each write wrapper (lines 150, 173, 196)
SubmitRequest(f, a, g) ==
    CASE f = "increaseStake" -> SendRequest("increaseStake", <<a[1], a[2]>>, g)
      [] f = "decreaseStake" -> SendRequest("decreaseStake", <<a[1], a[2]>>, g)
      [] f = "decreaseAndDestroy" -> SendRequest("decreaseAndDestroy", <<a[1], a[2]>>, g)

\* PROVIDER.getGasPrice()
GasPriceRequest ==
    [target |-> "PROVIDER", on |-> <<>>, method |-> "getGasPrice", args |-> <<>>,
     overrides |-> NoOverrides]

\* tx.wait(), on the transaction t
WaitRequest(t) ==
    [target |-> "tx", on |-> <<t>>, method |-> "wait", args |-> <<>>,
     overrides |-> NoOverrides]

Ok(v) == [kind |-> "ok", value |-> v]
Err(e) == [kind |-> "error", value |-> e]

\* the first console.log of each write wrapper (lines 145, 168, 191)
Banner(f, a) ==
    CASE f = "increaseStake" -> <<"Increasing stake of", a[1], "by", a[2]>>
      [] f = "decreaseStake" -> <<"Reducing stake of", a[1], "by", a[2]>>
      [] f = "decreaseAndDestroy" ->
            <<"Destroying gotchi:", a[1], "and send its xp to gotchi:", a[2], "...">>

\* console.log("gas price in gwei", formatUnits(gasPrice, "gwei"))
GasLine(g) == <<"gas price in gwei", formatUnits(g)>>

\* console.log("Transaction validated !\n")
Validated == <<"Transaction validated !\n">>

(* ---------------------------- initial state ---------------------------- *)
Init ==
    /\ pc = [p \in Slots |-> "idle"]
    /\ fn = [p \in Slots |-> Undefined]
    /\ args = [p \in Slots |-> <<>>]
    /\ gasPrice = [p \in Slots |-> <<>>]
    /\ tx = [p \in Slots |-> <<>>]
    /\ result = [p \in Slots |-> Undefined]
    /\ issued = [p \in Slots |-> <<>>]
    /\ resp = [p \in Slots |-> <<>>]
    /\ console = [p \in Slots |-> <<>>]
    /\ txs = <<>>

(* ---------------------------- invocation ------------------------------- *)
\* the caller invokes wrapper f with the arguments `received`
Enter(p, f, received) ==
    /\ pc[p] = "idle"
    /\ fn' = [fn EXCEPT ![p] = f]
    /\ args' = [args EXCEPT ![p] = received]
    /\ UNCHANGED <<gasPrice, tx, result, resp, txs>>

\* a read wrapper up to its await: issue the view call
StartRead(p, request) ==
    /\ pc' = [pc EXCEPT ![p] = "call"]
    /\ issued' = [issued EXCEPT ![p] = <<request>>]
    /\ UNCHANGED console

\* a write wrapper up to its first await: log the banner, ask for the gas price
StartWrite(p, banner) ==
    /\ pc' = [pc EXCEPT ![p] = "gasPrice"]
    /\ console' = [console EXCEPT ![p] = <<banner>>]
    /\ issued' = [issued EXCEPT ![p] = <<GasPriceRequest>>]

collaterals(p, hauntId) ==
    /\ Enter(p, "collaterals", <<hauntId>>)
    /\ StartRead(p, CallRequest("collaterals", <<hauntId>>))

\* variant of collateralInfo that passes its arguments in the wrong order
\* (sensitivity of C5)
collateralInfoSwapped(p, hauntId, collateralId) ==
    /\ Enter(p, "collateralInfo", <<hauntId, collateralId>>)
    /\ StartRead(p, CallRequest("collateralInfo", <<collateralId, hauntId>>))

collateralInfo(p, hauntId, collateralId) ==
    /\ Enter(p, "collateralInfo", <<hauntId, collateralId>>)
    /\ StartRead(p, CallRequest("collateralInfo", <<hauntId, collateralId>>))

getCollateralInfo(p, hauntId) ==
    /\ Enter(p, "getCollateralInfo", <<hauntId>>)
    /\ StartRead(p, CallRequest("getCollateralInfo", <<hauntId>>))

getAllCollateralTypes(p) ==
    /\ Enter(p, "getAllCollateralTypes", <<>>)
    /\ StartRead(p, CallRequest("getAllCollateralTypes", <<>>))

\* variant of collateralBalance written like a write wrapper (sensitivity of C10)
collateralBalanceWithGasPrice(p, tokenId) ==
    /\ Enter(p, "collateralBalance", <<tokenId>>)
    /\ StartWrite(p, <<"collateralBalance", tokenId>>)

collateralBalance(p, tokenId) ==
    /\ Enter(p, "collateralBalance", <<tokenId>>)
    /\ StartRead(p, CallRequest("collateralBalance", <<tokenId>>))

increaseStake(p, tokenId, stakeAmount) ==
    /\ Enter(p, "increaseStake", <<tokenId, stakeAmount>>)
    /\ StartWrite(p, Banner("increaseStake", <<tokenId, stakeAmount>>))

decreaseStake(p, tokenId, reduceAmount) ==
    /\ Enter(p, "decreaseStake", <<tokenId, reduceAmount>>)
    /\ StartWrite(p, Banner("decreaseStake", <<tokenId, reduceAmount>>))

decreaseAndDestroy(p, tokenId, toId) ==
    /\ Enter(p, "decreaseAndDestroy", <<tokenId, toId>>)
    /\ StartWrite(p, Banner("decreaseAndDestroy", <<tokenId, toId>>))

(* ---------------------------- continuations ---------------------------- *)
\* catch (error) { throw new Error(error) }: the returned promise is rejected
Throw(p, error) ==
    /\ pc' = [pc EXCEPT ![p] = "rejected"]
    /\ result' = [result EXCEPT ![p] = NewError(error)]
    /\ resp' = [resp EXCEPT ![p] = Append(@, Err(error))]

\* variant of ReadReturn that answers from the other invocation's result, as a
\* module-level cache would (sensitivity of C7)
ReadReturnCached(p, ret) ==
    /\ pc[p] = "call"
    /\ ret \in Responses(fn[p])
    /\ pc' = [pc EXCEPT ![p] = "fulfilled"]
    /\ result' = [result EXCEPT ![p] =
            IF pc[Other(p)] = "fulfilled" /\ fn[Other(p)] = fn[p]
            THEN result[Other(p)] ELSE Unmarshal(fn[p], ret)]
    /\ resp' = [resp EXCEPT ![p] = Append(@, Ok(ret))]
    /\ UNCHANGED <<fn, args, gasPrice, tx, issued, console, txs>>

\* the view call answered: unmarshal and return
ReadReturn(p, ret) ==
    /\ pc[p] = "call"
    /\ ret \in Responses(fn[p])
    /\ pc' = [pc EXCEPT ![p] = "fulfilled"]
    /\ result' = [result EXCEPT ![p] = Unmarshal(fn[p], ret)]
    /\ resp' = [resp EXCEPT ![p] = Append(@, Ok(ret))]
    /\ UNCHANGED <<fn, args, gasPrice, tx, issued, console, txs>>

\* the view call failed
ReadCatch(p, error) ==
    /\ pc[p] = "call"
    /\ Throw(p, error)
    /\ UNCHANGED <<fn, args, gasPrice, tx, issued, console, txs>>

\* variant of GasPriceReturn with gasPrice shared between invocations, as a
\* module-level variable would be (sensitivity of C8)
GasPriceReturnShared(p, g) ==
    /\ pc[p] = "gasPrice"
    /\ gasPrice' = [gasPrice EXCEPT ![p] =
            IF gasPrice[Other(p)] # <<>> THEN gasPrice[Other(p)] ELSE <<g>>]
    /\ resp' = [resp EXCEPT ![p] = Append(@, Ok(g))]
    /\ console' = [console EXCEPT ![p] = Append(@, GasLine(gasPrice'[p][1]))]
    /\ issued' = [issued EXCEPT ![p] =
            Append(@, SubmitRequest(fn[p], args[p], gasPrice'[p][1]))]
    /\ pc' = [pc EXCEPT ![p] = "send"]
    /\ UNCHANGED <<fn, args, tx, result, txs>>

\* PROVIDER.getGasPrice() answered: log it, submit the transaction
GasPriceReturn(p, g) ==
    /\ pc[p] = "gasPrice"
    /\ gasPrice' = [gasPrice EXCEPT ![p] = <<g>>]
    /\ resp' = [resp EXCEPT ![p] = Append(@, Ok(g))]
    /\ console' = [console EXCEPT ![p] = Append(@, GasLine(gasPrice'[p][1]))]
    /\ issued' = [issued EXCEPT ![p] =
            Append(@, SubmitRequest(fn[p], args[p], gasPrice'[p][1]))]
    /\ pc' = [pc EXCEPT ![p] = "send"]
    /\ UNCHANGED <<fn, args, tx, result, txs>>

\* variant of GasPriceCatch that submits without a gas price instead of
\* failing (sensitivity of C4)
GasPriceCatchFallback(p, error) ==
    /\ pc[p] = "gasPrice"
    /\ resp' = [resp EXCEPT ![p] = Append(@, Err(error))]
    /\ issued' = [issued EXCEPT ![p] = Append(@, CallRequest(fn[p], args[p]))]
    /\ pc' = [pc EXCEPT ![p] = "send"]
    /\ UNCHANGED <<fn, args, gasPrice, tx, result, console, txs>>

\* PROVIDER.getGasPrice() failed
GasPriceCatch(p, error) ==
    /\ pc[p] = "gasPrice"
    /\ Throw(p, error)
    /\ UNCHANGED <<fn, args, gasPrice, tx, issued, console, txs>>

\* variant of SendReturn that does not wait for the confirmation
\* (sensitivity of C2)
SendReturnNoWait(p) ==
    /\ pc[p] = "send"
    /\ txs' = Append(txs, [from |-> p, request |-> issued[p][Len(issued[p])]])
    /\ tx' = [tx EXCEPT ![p] = <<Len(txs')>>]
    /\ resp' = [resp EXCEPT ![p] = Append(@, Ok(<<"tx", tx'[p][1]>>))]
    /\ console' = [console EXCEPT ![p] = Append(@, Validated)]
    /\ pc' = [pc EXCEPT ![p] = "fulfilled"]
    /\ UNCHANGED <<fn, args, gasPrice, result, issued>>

\* the remote accepted the transaction: wait for its confirmation
SendReturn(p) ==
    /\ pc[p] = "send"
    /\ txs' = Append(txs, [from |-> p, request |-> issued[p][Len(issued[p])]])
    /\ tx' = [tx EXCEPT ![p] = <<Len(txs')>>]
    /\ resp' = [resp EXCEPT ![p] = Append(@, Ok(<<"tx", tx'[p][1]>>))]
    /\ issued' = [issued EXCEPT ![p] = Append(@, WaitRequest(tx'[p][1]))]
    /\ pc' = [pc EXCEPT ![p] = "wait"]
    /\ UNCHANGED <<fn, args, gasPrice, result, console>>

\* variant of SendCatch that submits again (sensitivity of C3)
SendCatchRetry(p, error) ==
    /\ pc[p] = "send"
    /\ Len(issued[p]) < 3
    /\ resp' = [resp EXCEPT ![p] = Append(@, Err(error))]
    /\ issued' = [issued EXCEPT ![p] = Append(@, issued[p][Len(issued[p])])]
    /\ UNCHANGED <<pc, fn, args, gasPrice, tx, result, console, txs>>

\* the submission failed
SendCatch(p, error) ==
    /\ pc[p] = "send"
    /\ Throw(p, error)
    /\ UNCHANGED <<fn, args, gasPrice, tx, issued, console, txs>>

\* tx.wait() resolved: the transaction is confirmed
WaitReturn(p) ==
    /\ pc[p] = "wait"
    /\ resp' = [resp EXCEPT ![p] = Append(@, Ok(<<"receipt", tx[p][1]>>))]
    /\ console' = [console EXCEPT ![p] = Append(@, Validated)]
    /\ pc' = [pc EXCEPT ![p] = "fulfilled"]
    /\ UNCHANGED <<fn, args, gasPrice, tx, result, issued, txs>>

\* variant of WaitCatch that swallows the error (sensitivity of C1)
WaitCatchSwallowed(p, error) ==
    /\ pc[p] = "wait"
    /\ resp' = [resp EXCEPT ![p] = Append(@, Err(error))]
    /\ pc' = [pc EXCEPT ![p] = "fulfilled"]
    /\ UNCHANGED <<fn, args, gasPrice, tx, result, issued, console, txs>>

\* tx.wait() failed
WaitCatch(p, error) ==
    /\ pc[p] = "wait"
    /\ Throw(p, error)
    /\ UNCHANGED <<fn, args, gasPrice, tx, issued, console, txs>>

(* ---------------------------- specification ---------------------------- *)
Next ==
    \/ \E p \in Slots, hauntId \in Ids : collaterals(p, hauntId)
    \/ \E p \in Slots, hauntId \in Ids, collateralId \in Ids :
            collateralInfo(p, hauntId, collateralId)
    \/ \E p \in Slots, hauntId \in Ids : getCollateralInfo(p, hauntId)
    \/ \E p \in Slots : getAllCollateralTypes(p)
    \/ \E p \in Slots, tokenId \in Ids : collateralBalance(p, tokenId)
    \/ \E p \in Slots, tokenId \in Ids, stakeAmount \in Ids :
            increaseStake(p, tokenId, stakeAmount)
    \/ \E p \in Slots, tokenId \in Ids, reduceAmount \in Ids :
            decreaseStake(p, tokenId, reduceAmount)
    \/ \E p \in Slots, tokenId \in Ids, toId \in Ids : decreaseAndDestroy(p, tokenId, toId)
    \/ \E p \in Slots : \E ret \in Responses(fn[p]) : ReadReturn(p, ret)
    \/ \E p \in Slots, error \in RemoteErrors : ReadCatch(p, error)
    \/ \E p \in Slots, g \in GasPrices : GasPriceReturn(p, g)
    \/ \E p \in Slots, error \in RemoteErrors : GasPriceCatch(p, error)
    \/ \E p \in Slots : SendReturn(p)
    \/ \E p \in Slots, error \in RemoteErrors : SendCatch(p, error)
    \/ \E p \in Slots : WaitReturn(p)
    \/ \E p \in Slots, error \in RemoteErrors : WaitCatch(p, error)

Spec == Init /\ [][Next]_vars

(* ---------------------------- properties ------------------------------- *)
Settled(p) == pc[p] \in {"fulfilled", "rejected"}
IsRead(p) == fn[p] \in ReadWrappers
IsWrite(p) == fn[p] \in WriteWrappers
FailedAt(p, i) == i \in DOMAIN resp[p] /\ resp[p][i].kind = "error"
Failed(p) == \E i \in DOMAIN resp[p] : FailedAt(p, i)
Logged(p, line) == \E i \in DOMAIN console[p] : console[p][i] = line
Requests(p, target, method) ==
    {i \in DOMAIN issued[p] : issued[p][i].target = target /\ issued[p][i].method = method}
Submissions(p) ==
    {i \in DOMAIN issued[p] :
        issued[p][i].target = "collateralFacet" /\ issued[p][i].overrides # NoOverrides}
TxsFrom(p) == {i \in DOMAIN txs : txs[i].from = p}

\* C1: in every wrapper, once a remote step of an invocation has failed, the
\* invocation has ended rejected with the re-wrapped error; it is never
\* fulfilled and never left pending.
C1_FailurePropagates ==
    \A p \in Slots :
        Failed(p) =>
            /\ pc[p] = "rejected"
            /\ result[p] = NewError(resp[p][Len(resp[p])].value)

\* a decreaseAndDestroy whose tx.wait failed and a read whose view call failed
C1_Witness ==
    \E p, q \in Slots :
        /\ fn[p] = "decreaseAndDestroy" /\ FailedAt(p, 3) /\ pc[p] = "rejected"
        /\ IsRead(q) /\ FailedAt(q, 1) /\ pc[q] = "rejected"

\* C2: a write wrapper is fulfilled, and has logged "Transaction validated",
\* only after its submission succeeded and the tx.wait of that same
\* transaction succeeded.
C2_SuccessMeansConfirmed ==
    \A p \in Slots :
        (IsWrite(p) /\ (pc[p] = "fulfilled" \/ Logged(p, Validated))) =>
            /\ pc[p] = "fulfilled"
            /\ Len(resp[p]) = 3 /\ Len(issued[p]) = 3
            /\ resp[p][2].kind = "ok"
            /\ tx[p] # <<>>
            /\ resp[p][2].value = <<"tx", tx[p][1]>>
            /\ tx[p][1] \in DOMAIN txs
            /\ txs[tx[p][1]] = [from |-> p, request |-> issued[p][2]]
            /\ issued[p][3] = WaitRequest(tx[p][1])
            /\ resp[p][3] = Ok(<<"receipt", tx[p][1]>>)
            /\ Logged(p, Validated)

\* both slots hold a fulfilled write
C2_Witness ==
    \A p \in Slots : IsWrite(p) /\ pc[p] = "fulfilled" /\ Logged(p, Validated)

\* C3: one invocation issues each remote step at most once: a read wrapper at
\* most one contract call, a write wrapper at most one getGasPrice, one
\* submission and one tx.wait, and it never has two transactions accepted.
C3_NoRetry ==
    \A p \in Slots :
        /\ IsRead(p) => Len(issued[p]) <= 1
        /\ Cardinality(Requests(p, "PROVIDER", "getGasPrice")) <= 1
        /\ Cardinality(Requests(p, "collateralFacet", fn[p])) <= 1
        /\ Cardinality(Requests(p, "tx", "wait")) <= 1
        /\ Cardinality(TxsFrom(p)) <= 1

\* a write whose submission failed and a read whose call failed have settled
C3_Witness ==
    \E p, q \in Slots :
        /\ IsWrite(p) /\ FailedAt(p, 2) /\ Settled(p)
        /\ IsRead(q) /\ FailedAt(q, 1) /\ Settled(q)

\* C4: after a remote step of a write invocation has failed, the invocation
\* issues no further remote step: no submission after a failed getGasPrice, no
\* tx.wait after a failed submission.
C4_NoRecovery ==
    \A p \in Slots :
        IsWrite(p) =>
            /\ \A i \in DOMAIN resp[p] : FailedAt(p, i) => Len(issued[p]) = i
            /\ FailedAt(p, 1) => Submissions(p) = {} /\ TxsFrom(p) = {}
            /\ FailedAt(p, 2) => Requests(p, "tx", "wait") = {}

\* one write failed at getGasPrice, the other at the submission
C4_Witness ==
    \E p, q \in Slots :
        /\ IsWrite(p) /\ FailedAt(p, 1) /\ Settled(p)
        /\ IsWrite(q) /\ FailedAt(q, 2) /\ Settled(q)

\* C5: every request to collateralFacet names the wrapper's own method and
\* carries exactly the arguments the wrapper received, in order; a read adds
\* no override, a write adds only gasPrice.
C5_ArgumentsPassThrough ==
    \A p \in Slots :
        \A i \in DOMAIN issued[p] :
            issued[p][i].target = "collateralFacet" =>
                /\ issued[p][i].method = fn[p]
                /\ issued[p][i].args = args[p]
                /\ IsRead(p) => issued[p][i].overrides = NoOverrides
                /\ IsWrite(p) =>
                    \E g \in GasPrices : issued[p][i].overrides = {<<"gasPrice", g>>}

\* a collateralInfo and a decreaseAndDestroy, each with two different
\* arguments, have made their contract request
C5_Witness ==
    \E p, q \in Slots :
        /\ fn[p] = "collateralInfo" /\ args[p][1] # args[p][2]
        /\ Requests(p, "collateralFacet", "collateralInfo") # {}
        /\ fn[q] = "decreaseAndDestroy" /\ args[q][1] # args[q][2]
        /\ Requests(q, "collateralFacet", "decreaseAndDestroy") # {}

\* C6: a fulfilled read returns the remote value: collaterals and
\* getAllCollateralTypes unchanged, collateralInfo field by field,
\* collateralBalance with collateralType_, escrow_, balance_ renamed.
C6_ResultsPassThrough ==
    \A p \in Slots :
        (pc[p] = "fulfilled" /\ IsRead(p)) =>
            /\ resp[p][1].kind = "ok"
            /\ fn[p] \in {"collaterals", "getAllCollateralTypes"} =>
                    result[p] = resp[p][1].value
            /\ fn[p] = "collateralInfo" =>
                    /\ DOMAIN result[p] = {"collateralType", "collateralTypeInfo"}
                    /\ result[p].collateralType = resp[p][1].value.collateralType
                    /\ result[p].collateralTypeInfo = resp[p][1].value.collateralTypeInfo
            /\ fn[p] = "collateralBalance" =>
                    /\ DOMAIN result[p] = {"collateralType", "escrow", "balance"}
                    /\ result[p].collateralType = resp[p][1].value.collateralType_
                    /\ result[p].escrow = resp[p][1].value.escrow_
                    /\ result[p].balance = resp[p][1].value.balance_

\* a collateralBalance answered with two different addresses and a
\* collaterals answered with a full array are fulfilled
C6_Witness ==
    \E p, q \in Slots :
        /\ fn[p] = "collateralBalance" /\ pc[p] = "fulfilled"
        /\ resp[p][1].value.collateralType_ # resp[p][1].value.escrow_
        /\ fn[q] = "collaterals" /\ pc[q] = "fulfilled"
        /\ Len(resp[q][1].value) = MaxLen

\* the observable run of one invocation of wrapper f, alone, with arguments a
\* and the answers rs to its own remote calls
SoloRead(f, a, rs) ==
    [issued |-> <<CallRequest(f, a)>>,
     console |-> <<>>,
     pc |-> IF rs = <<>> THEN "call"
            ELSE IF rs[1].kind = "ok" THEN "fulfilled" ELSE "rejected",
     result |-> IF rs = <<>> THEN <<>>
                ELSE IF rs[1].kind = "ok" THEN <<Unmarshal(f, rs[1].value)>>
                ELSE <<NewError(rs[1].value)>>]

SoloWrite(f, a, rs) ==
    LET n == Len(rs)
        okUpTo(k) == \A i \in 1..k : rs[i].kind = "ok"
    IN  [issued |->
            <<GasPriceRequest>>
            \o (IF n >= 1 /\ okUpTo(1) THEN <<SubmitRequest(f, a, rs[1].value)>> ELSE <<>>)
            \o (IF n >= 2 /\ okUpTo(2) THEN <<WaitRequest(rs[2].value[2])>> ELSE <<>>),
         console |->
            <<Banner(f, a)>>
            \o (IF n >= 1 /\ okUpTo(1) THEN <<GasLine(rs[1].value)>> ELSE <<>>)
            \o (IF n >= 3 /\ okUpTo(3) THEN <<Validated>> ELSE <<>>),
         pc |-> IF ~okUpTo(n) THEN "rejected"
                ELSE CASE n = 0 -> "gasPrice" [] n = 1 -> "send"
                       [] n = 2 -> "wait" [] OTHER -> "fulfilled",
         result |-> IF ~okUpTo(n) THEN <<NewError(rs[n].value)>> ELSE <<>>]

Solo(f, a, rs) == IF f \in ReadWrappers THEN SoloRead(f, a, rs) ELSE SoloWrite(f, a, rs)

\* C7: whatever the other invocation has done, an invocation's requests, log,
\* position and outcome are those of the same wrapper run alone with the same
\* arguments and the same answers to its own remote calls.
C7_Stateless ==
    \A p \in Slots :
        fn[p] # Undefined =>
            LET solo == Solo(fn[p], args[p], resp[p])
            IN  /\ pc[p] = solo.pc
                /\ issued[p] = solo.issued
                /\ console[p] = solo.console
                /\ solo.result = <<>> => result[p] = Undefined
                /\ solo.result # <<>> => result[p] = solo.result[1]

\* two invocations of the same read wrapper with the same arguments, one after
\* or during the other, were answered differently and are both fulfilled
C7_Witness ==
    \E p, q \in Slots :
        /\ p # q /\ fn[p] # Undefined /\ fn[p] = fn[q] /\ args[p] = args[q]
        /\ pc[p] = "fulfilled" /\ pc[q] = "fulfilled"
        /\ resp[p][1] # resp[q][1]

\* C8: in a write invocation each remote step is issued only after the
\* previous one has completed successfully, in the order getGasPrice,
\* submission, tx.wait, and the submission's gasPrice override is the value
\* its own getGasPrice returned.
C8_Sequential ==
    \A p \in Slots :
        IsWrite(p) =>
            /\ Len(issued[p]) \in {Len(resp[p]), Len(resp[p]) + 1}
            /\ \A i \in DOMAIN issued[p] :
                    /\ i > 1 => resp[p][i - 1].kind = "ok"
                    /\ i = 1 => issued[p][i] = GasPriceRequest
                    /\ i = 2 => /\ i \in Submissions(p)
                                /\ issued[p][i].overrides =
                                        {<<"gasPrice", resp[p][1].value>>}
                    /\ i = 3 => i \in Requests(p, "tx", "wait")
            /\ Len(issued[p]) <= 3

\* two write invocations in flight at once, submitted with different gas prices
C8_Witness ==
    \E p, q \in Slots :
        /\ IsWrite(p) /\ IsWrite(q)
        /\ pc[p] = "send" /\ pc[q] = "send"
        /\ resp[p][1].value # resp[q][1].value

\* C9: a fulfilled getCollateralInfo returns an array as long as the remote
\* one whose i-th element has the collateralType and collateralTypeInfo of the
\* i-th remote element; an empty remote array gives an empty array, fulfilled.
C9_GetCollateralInfoMaps ==
    \A p \in Slots :
        (fn[p] = "getCollateralInfo" /\ Len(resp[p]) = 1 /\ resp[p][1].kind = "ok") =>
            /\ pc[p] = "fulfilled"
            /\ Len(result[p]) = Len(resp[p][1].value)
            /\ \A i \in 1..Len(result[p]) :
                    /\ DOMAIN result[p][i] = {"collateralType", "collateralTypeInfo"}
                    /\ result[p][i].collateralType = resp[p][1].value[i].collateralType
                    /\ result[p][i].collateralTypeInfo =
                            resp[p][1].value[i].collateralTypeInfo
            /\ resp[p][1].value = <<>> => result[p] = <<>>

\* one getCollateralInfo answered with two different elements, the other with
\* the empty array
C9_Witness ==
    \E p, q \in Slots :
        /\ fn[p] = "getCollateralInfo" /\ pc[p] = "fulfilled"
        /\ Len(resp[p][1].value) = 2 /\ resp[p][1].value[1] # resp[p][1].value[2]
        /\ fn[q] = "getCollateralInfo" /\ pc[q] = "fulfilled"
        /\ resp[q][1].value = <<>>

\* C10: a read invocation issues nothing but its one view call: no
\* getGasPrice, no submission, no tx.wait, and no transaction of its own is
\* ever accepted, whether it succeeds or fails.
C10_ReadsOnlyCall ==
    \A p \in Slots :
        IsRead(p) =>
            /\ issued[p] = <<CallRequest(fn[p], args[p])>>
            /\ Requests(p, "PROVIDER", "getGasPrice") = {}
            /\ Submissions(p) = {}
            /\ Requests(p, "tx", "wait") = {}
            /\ TxsFrom(p) = {}
            /\ gasPrice[p] = <<>> /\ tx[p] = <<>>

\* a read has failed and another has succeeded while no transaction exists
C10_Witness ==
    \E p, q \in Slots :
        /\ IsRead(p) /\ pc[p] = "rejected"
        /\ IsRead(q) /\ pc[q] = "fulfilled"
        /\ txs = <<>>

====
